---- MODULE Spec2Model ----
(***************************************************************************)
(* Model of src/src/App.js: the chat view of the banking assistant.        *)
(*                                                                         *)
(* The component state is messages, input and loading (useState).  Every   *)
(* accepted submission starts an exchange: an asynchronous computation     *)
(* (callAPI, or fileReader.onload followed by callAPI) that is suspended   *)
(* at its awaits.  One step of the model is one run-to-completion task of  *)
(* the single UI thread: an event handler, or the continuation of one      *)
(* await up to the next await; the state updates of one task are applied   *)
(* together (batched).                                                     *)
(*                                                                         *)
(* A JavaScript string is a sequence of tokens: one token per character of *)
(* typed or extracted text, one token for a literal piece of fixed text.   *)
(* Non-ASCII characters are written as their code point ("U+274C").        *)
(***************************************************************************)
EXTENDS Naturals, Sequences, FiniteSets, TLC

\* Bounds of the model.
MaxExchanges == 2
MaxPages == 2

Exchanges == 1..MaxExchanges

VARIABLES
    messages,       \* useState: the conversation
    input,          \* useState: the text field
    loading,        \* useState: the "Analyzing complaint..." bubble
    pc,             \* per exchange: the await at which it is suspended
    kind,           \* per exchange: "typed" (handleSend) or "file" (handleFileUpload)
    text,           \* per exchange: the argument of callAPI
    numPages,       \* per exchange: pdf.numPages
    i,              \* per exchange: the loop variable of the page loop
    extractedText,  \* per exchange: the accumulator of the page loop
    pageRequests,   \* history, per exchange: the page numbers passed to pdf.getPage
    pages,          \* history, per exchange: the textContent.items obtained, in order
    requests,       \* the fetch calls issued so far, in order
    origin,         \* history: for each Message, the exchange that appended it
    caught,         \* per exchange: the error the catch block logged (console.error)
    last            \* history: which handler returned at once in the last step, if one did

vars == <<messages, input, loading, pc, kind, text, numPages, i,
          extractedText, pageRequests, pages, caught, requests, origin, last>>

exchangeVars == <<pc, kind, text, numPages, i, extractedText, pageRequests,
                  pages, caught>>
pdfVars == <<numPages, i, extractedText, pageRequests, pages>>

-----------------------------------------------------------------------------
\* Strings

Whitespace == {" "}

RECURSIVE trimStart(_)
trimStart(s) ==
    IF s # <<>> /\ Head(s) \in Whitespace THEN trimStart(Tail(s)) ELSE s

RECURSIVE trimEnd(_)
trimEnd(s) ==
    IF s # <<>> /\ s[Len(s)] \in Whitespace
    THEN trimEnd(SubSeq(s, 1, Len(s) - 1))
    ELSE s

\* A faulty variant of trim: nothing is removed.
trimNothing(s) == s

\* String.prototype.trim
trim(s) == trimEnd(trimStart(s))

\* Array.prototype.join on an array of strings
RECURSIVE join(_, _)
join(items, sep) ==
    IF items = <<>> THEN <<>>
    ELSE IF Len(items) = 1 THEN items[1]
    ELSE items[1] \o sep \o join(Tail(items), sep)

IsPrefix(s, t) == Len(s) <= Len(t) /\ SubSeq(t, 1, Len(s)) = s

-----------------------------------------------------------------------------
\* Messages

String(s) == [type |-> "string", value |-> s]
Jsx(data) == [type |-> "jsx", data |-> data]

Message(sender, txt) == [sender |-> sender, text |-> txt]

Greeting ==
    Message("bot", String(<<"Hi! I am Banking AI Assistant. Ask your queries.">>))

FailureText == <<"U+274C", " Unable to connect to Banking AI Engine.">>

UploadedText(name) == <<"U+1F4C4", " Uploaded: ">> \o name

\* A faulty variant of appendMessage: the new Message replaces the conversation's last one.
replaceLastMessage(prev, m) == SubSeq(prev, 1, Len(prev) - 1) \o <<m>>

\* A faulty variant of appendMessage: the new Message is put in front of the last one.
insertBeforeLast(prev, m) ==
    SubSeq(prev, 1, Len(prev) - 1) \o <<m, prev[Len(prev)]>>

\* setMessages(prev => [...prev, m])
appendMessage(prev, m) == Append(prev, m)

-----------------------------------------------------------------------------
\* The inputs of the model

\* What the user types into the text field: nothing, only whitespace, text,
\* text with whitespace around it.
InputValues == { <<>>, <<" ">>, <<"a">>, <<" ", "b">> }

FileNames == { <<"f", ".pdf">> }
NoFile == <<>>

\* The text runs (item.str) of one page: none (a page without text), two runs.
PageItems == { <<>>, << <<"a">>, <<"b">> >> }

\* What response.json() resolves to: null, an object without fields, an
\* object with all fields, an object whose resolution_steps is not an array.
DataValues ==
    { [json |-> "null",   ticket_title |-> "undefined", resolution_steps |-> "undefined"],
      [json |-> "object", ticket_title |-> "undefined", resolution_steps |-> "undefined"],
      [json |-> "object", ticket_title |-> "Duplicate Charge", resolution_steps |-> "array"],
      [json |-> "object", ticket_title |-> "Duplicate Charge", resolution_steps |-> "string"] }

\* Building formattedResponse throws a TypeError when data is null (property
\* read of null) or when resolution_steps is neither absent nor an array
\* (data.resolution_steps?.map is not a function).
formatThrows(data) ==
    \/ data.json = "null"
    \/ data.resolution_steps \notin {"undefined", "array"}

-----------------------------------------------------------------------------
\* Exchanges

Started(e) == pc[e] # "idle"

\* The exchange the next accepted submission starts.
NextExchange == Cardinality({e \in Exchanges : Started(e)}) + 1

\* The analysis request of e is issued and not settled.
InFlight(e) == pc[e] \in {"fetch", "json"}

\* The text extraction of e is under way.
Extracting(e) ==
    pc[e] \in {"readAsArrayBuffer", "getDocument", "getPage", "getTextContent"}

Sending(e) == Extracting(e) \/ InFlight(e)
Succeeded(e) == pc[e] = "succeeded"
Failed(e) == pc[e] = "failed"

\* The extraction of e failed: the file could not be read (the FileReader has
\* no onerror handler), or a promise awaited in onload was rejected (onload
\* has no try/catch, the rejection is unhandled).
ExtractionFailed(e) == pc[e] \in {"readError", "unhandledRejection"}

Init ==
    /\ messages = <<Greeting>>
    /\ input = <<>>
    /\ loading = FALSE
    /\ pc = [e \in Exchanges |-> "idle"]
    /\ kind = [e \in Exchanges |-> "none"]
    /\ text = [e \in Exchanges |-> <<>>]
    /\ numPages = [e \in Exchanges |-> 0]
    /\ i = [e \in Exchanges |-> 0]
    /\ extractedText = [e \in Exchanges |-> <<>>]
    /\ pageRequests = [e \in Exchanges |-> <<>>]
    /\ pages = [e \in Exchanges |-> <<>>]
    /\ caught = [e \in Exchanges |-> "none"]
    /\ requests = <<>>
    /\ origin = <<0>>
    /\ last = "none"

\* A faulty variant of controlsEnabled: the controls are disabled while loading is set.
controlsDisabledWhileLoading(l) == ~l

\* The text field, the Send button and the file button of the chat-input
\* block carry no disabled attribute: they work whatever loading is.
controlsEnabled(l) == TRUE

\* onChange of the text field: setInput(e.target.value)
SetInput(v) ==
    /\ controlsEnabled(loading)
    /\ v # input
    /\ input' = v
    /\ last' = "none"
    /\ UNCHANGED <<messages, loading, exchangeVars, requests, origin>>

\* A faulty variant of callAPI: the query is trimmed before it is sent.
callAPITrimmed(e, query) ==
    /\ loading' = TRUE
    /\ requests' = Append(requests,
                     [exchange |-> e, method |-> "POST",
                      body |-> [customer_query |-> trim(query)]])
    /\ text' = [text EXCEPT ![e] = query]
    /\ pc' = [pc EXCEPT ![e] = "fetch"]

\* The synchronous part of callAPI(query), up to the await of fetch:
\* setLoading(true) and the POST of { customer_query: query }.
callAPI(e, query) ==
    /\ loading' = TRUE
    /\ requests' = Append(requests,
                     [exchange |-> e, method |-> "POST",
                      body |-> [customer_query |-> query]])
    /\ text' = [text EXCEPT ![e] = query]
    /\ pc' = [pc EXCEPT ![e] = "fetch"]

\* A faulty variant of HandleSend: the text field is not cleared.
HandleSendKeepsInput ==
    /\ controlsEnabled(loading)
    /\ IF trim(input) = <<>>
       THEN /\ last' = "handleSend"
            /\ UNCHANGED <<messages, input, loading, exchangeVars, requests, origin>>
       ELSE /\ NextExchange <= MaxExchanges
            /\ messages' = appendMessage(messages, Message("user", String(input)))
            /\ origin' = Append(origin, NextExchange)
            /\ callAPI(NextExchange, input)
            /\ kind' = [kind EXCEPT ![NextExchange] = "typed"]
            /\ last' = "none"
            /\ UNCHANGED <<input, pdfVars, caught>>

\* handleSend: the Enter key or the Send button.
HandleSend ==
    /\ controlsEnabled(loading)
    /\ IF trim(input) = <<>>
       THEN /\ last' = "handleSend"
            /\ UNCHANGED <<messages, input, loading, exchangeVars, requests, origin>>
       ELSE /\ NextExchange <= MaxExchanges
            /\ messages' = appendMessage(messages, Message("user", String(input)))
            /\ origin' = Append(origin, NextExchange)
            /\ callAPI(NextExchange, input)
            /\ kind' = [kind EXCEPT ![NextExchange] = "typed"]
            /\ input' = <<>>
            /\ last' = "none"
            /\ UNCHANGED <<pdfVars, caught>>

\* A faulty variant of catchMessages: the error is swallowed, no Message is appended.
catchSilently(prev, reason) == prev

\* A faulty variant of catchMessages: a non-success status shows a text of its own.
catchByKind(prev, reason) ==
    appendMessage(prev,
        Message("bot", String(IF reason = "ServerError"
                              THEN <<"Server Error">> ELSE FailureText)))

\* The catch block of callAPI: whatever was thrown, the same Message.
catchMessages(prev, reason) ==
    appendMessage(prev, Message("bot", String(FailureText)))

\* A faulty variant of finallyLoading: the flag is left as it is.
finallyKeeps(l) == l

\* The finally block of callAPI: setLoading(false)
finallyLoading(l) == FALSE

\* callAPI from a throw in the try block (reason: what was thrown) to its end.
Catch(e, reason) ==
    /\ messages' = catchMessages(messages, reason)
    /\ origin' = IF Len(messages') > Len(messages) THEN Append(origin, e) ELSE origin
    /\ loading' = finallyLoading(loading)
    /\ pc' = [pc EXCEPT ![e] = "failed"]
    /\ caught' = [caught EXCEPT ![e] = reason]
    /\ UNCHANGED <<input, kind, text, pdfVars, requests>>

\* fetch rejects: the service cannot be reached.
FetchRejects(e) ==
    /\ pc[e] = "fetch"
    /\ Catch(e, "NetworkError")
    /\ last' = "none"

\* fetch resolves with a response; a response that is not ok throws
\* Error("Server Error"), one that is ok is read by response.json().
FetchResolves(e, ok) ==
    /\ pc[e] = "fetch"
    /\ IF ok
       THEN /\ pc' = [pc EXCEPT ![e] = "json"]
            /\ UNCHANGED <<messages, input, loading, kind, text, pdfVars,
                           caught, requests, origin>>
       ELSE Catch(e, "ServerError")
    /\ last' = "none"

\* response.json() rejects: the body is not valid JSON.
JsonRejects(e) ==
    /\ pc[e] = "json"
    /\ Catch(e, "ParseError")
    /\ last' = "none"

\* response.json() resolves: the formatted response is built and appended,
\* then the finally block runs.
JsonResolves(e, data) ==
    /\ pc[e] = "json"
    /\ IF formatThrows(data)
       THEN Catch(e, "TypeError")
       ELSE /\ messages' = appendMessage(messages, Message("bot", Jsx(data)))
            /\ origin' = Append(origin, e)
            /\ loading' = finallyLoading(loading)
            /\ pc' = [pc EXCEPT ![e] = "succeeded"]
            /\ UNCHANGED <<input, kind, text, pdfVars, caught, requests>>
    /\ last' = "none"

-----------------------------------------------------------------------------
\* The file path

\* handleFileUpload: onChange of the file picker; file is e.target.files[0].
HandleFileUpload(file) ==
    /\ controlsEnabled(loading)
    /\ IF file = NoFile
       THEN /\ last' = "handleFileUpload"
            /\ UNCHANGED <<messages, input, loading, exchangeVars, requests, origin>>
       ELSE /\ NextExchange <= MaxExchanges
            /\ messages' = appendMessage(messages,
                               Message("user", String(UploadedText(file))))
            /\ origin' = Append(origin, NextExchange)
            /\ kind' = [kind EXCEPT ![NextExchange] = "file"]
            /\ pc' = [pc EXCEPT ![NextExchange] = "readAsArrayBuffer"]
            /\ last' = "none"
            /\ UNCHANGED <<input, loading, text, pdfVars, caught, requests>>

\* The FileReader fails to read the file: no onerror handler is set, nothing runs.
ReadFails(e) ==
    /\ pc[e] = "readAsArrayBuffer"
    /\ pc' = [pc EXCEPT ![e] = "readError"]
    /\ last' = "none"
    /\ UNCHANGED <<messages, input, loading, kind, text, pdfVars, caught,
                   requests, origin>>

\* fileReader.onload up to the await of getDocument(typedarray).promise
OnLoad(e) ==
    /\ pc[e] = "readAsArrayBuffer"
    /\ pc' = [pc EXCEPT ![e] = "getDocument"]
    /\ last' = "none"
    /\ UNCHANGED <<messages, input, loading, kind, text, pdfVars, caught,
                   requests, origin>>

\* A promise awaited in onload is rejected: onload has no try/catch, the
\* async function ends with an unhandled rejection.
Unhandled(e) ==
    /\ pc' = [pc EXCEPT ![e] = "unhandledRejection"]
    /\ UNCHANGED <<messages, input, loading, kind, text, pdfVars, caught,
                   requests, origin>>

\* A faulty variant of loopContinues: the last page is left out.
loopStopsEarly(k, n) == k < n

\* The test of the page loop: i <= pdf.numPages
loopContinues(k, n) == k <= n

\* The page loop from its test with i = k: either the next page is requested
\* (await pdf.getPage(k)) or the loop ends and callAPI(extractedText) is called.
PageLoop(e, k, n, extracted) ==
    /\ i' = [i EXCEPT ![e] = k]
    /\ numPages' = [numPages EXCEPT ![e] = n]
    /\ extractedText' = [extractedText EXCEPT ![e] = extracted]
    /\ IF loopContinues(k, n)
       THEN /\ pc' = [pc EXCEPT ![e] = "getPage"]
            /\ pageRequests' = [pageRequests EXCEPT ![e] = Append(@, k)]
            /\ UNCHANGED <<loading, requests, text>>
       ELSE /\ callAPI(e, extracted)
            /\ UNCHANGED pageRequests
    /\ UNCHANGED <<messages, input, kind, caught, origin>>

\* The document is opened: extractedText = "", i = 1, the loop is entered.
GetDocumentResolves(e, n) ==
    /\ pc[e] = "getDocument"
    /\ PageLoop(e, 1, n, <<>>)
    /\ last' = "none"
    /\ UNCHANGED pages

\* The document cannot be opened.
GetDocumentRejects(e) ==
    /\ pc[e] = "getDocument"
    /\ Unhandled(e)
    /\ last' = "none"

\* pdf.getPage(i) resolves: await page.getTextContent()
GetPageResolves(e) ==
    /\ pc[e] = "getPage"
    /\ pc' = [pc EXCEPT ![e] = "getTextContent"]
    /\ last' = "none"
    /\ UNCHANGED <<messages, input, loading, kind, text, pdfVars, caught,
                   requests, origin>>

GetPageRejects(e) ==
    /\ pc[e] = "getPage"
    /\ Unhandled(e)
    /\ last' = "none"

\* A faulty variant of pageText: the runs are joined without a separator.
pageTextUnseparated(items) == join(items, <<>>)

\* The text of one page: textContent.items.map(item => item.str).join(" ")
pageText(items) == join(items, <<" ">>)

\* A faulty variant of addText: the page's text replaces what was extracted.
setText(extracted, t) == t

\* extractedText += t
addText(extracted, t) == extracted \o t

\* A faulty variant of nextPage: every other page is skipped.
skipPage(k) == k + 2

\* i++
nextPage(k) == k + 1

\* page.getTextContent() resolves: the page's text is added, i++, the loop
\* test runs again.
GetTextContentResolves(e, items) ==
    /\ pc[e] = "getTextContent"
    /\ PageLoop(e, nextPage(i[e]), numPages[e],
                addText(extractedText[e], pageText(items)))
    /\ pages' = [pages EXCEPT ![e] = Append(@, items)]
    /\ last' = "none"

\* A page fails to decode.
GetTextContentRejects(e) ==
    /\ pc[e] = "getTextContent"
    /\ Unhandled(e)
    /\ last' = "none"

-----------------------------------------------------------------------------

Next ==
    \/ \E v \in InputValues : SetInput(v)
    \/ HandleSend
    \/ \E file \in FileNames \cup {NoFile} : HandleFileUpload(file)
    \/ \E e \in Exchanges : FetchRejects(e)
    \/ \E e \in Exchanges, ok \in BOOLEAN : FetchResolves(e, ok)
    \/ \E e \in Exchanges : JsonRejects(e)
    \/ \E e \in Exchanges, data \in DataValues : JsonResolves(e, data)
    \/ \E e \in Exchanges : ReadFails(e)
    \/ \E e \in Exchanges : OnLoad(e)
    \/ \E e \in Exchanges, n \in 1..MaxPages : GetDocumentResolves(e, n)
    \/ \E e \in Exchanges : GetDocumentRejects(e)
    \/ \E e \in Exchanges : GetPageResolves(e)
    \/ \E e \in Exchanges : GetPageRejects(e)
    \/ \E e \in Exchanges, items \in PageItems : GetTextContentResolves(e, items)
    \/ \E e \in Exchanges : GetTextContentRejects(e)

Spec == Init /\ [][Next]_vars

-----------------------------------------------------------------------------
\* What the claims speak of

\* The Messages exchange e appended that sender sent.
MessagesOf(e, sender) ==
    {k \in DOMAIN messages : origin[k] = e /\ messages[k].sender = sender}

\* The analysis request of e has been issued.
Requested(e) == \E k \in DOMAIN requests : requests[k].exchange = e

\* The analysis request of e has settled.
Settled(e) == Succeeded(e) \/ Failed(e)

FailureMessage == Message("bot", String(FailureText))

AllWhitespace(s) == \A k \in DOMAIN s : s[k] \in Whitespace

-----------------------------------------------------------------------------
\* C1: a typed exchange has exactly one user Message from its submission
\* step on, and an exchange whose request was issued has no bot Message
\* while the request is pending and exactly one once it has settled, by
\* success or by failure, whatever the other exchanges do.
C1_OneUserOneBotMessage ==
    \A e \in Exchanges :
        /\ kind[e] = "typed" =>
              /\ Requested(e)
              /\ Cardinality(MessagesOf(e, "user")) = 1
        /\ Requested(e) =>
              Cardinality(MessagesOf(e, "bot")) = IF Settled(e) THEN 1 ELSE 0

\* Two typed exchanges were in flight together (both user Messages precede
\* both replies); one succeeded, the other failed.
C1_Witness ==
    /\ kind[1] = "typed" /\ kind[2] = "typed"
    /\ Succeeded(1) /\ Failed(2)
    /\ origin = <<0, 1, 2, 2, 1>>

\* C2: handleSend with an empty or whitespace-only input changes nothing:
\* no Message, no request, no exchange, the same input and loading.
C2_BlankInputIgnored ==
    [][(HandleSend /\ AllWhitespace(input)) =>
          UNCHANGED <<messages, input, loading, requests, exchangeVars, origin>>]_vars

\* handleSend has just returned on a whitespace-only input.
C2_Witness ==
    /\ last = "handleSend"
    /\ input = <<" ">>
    /\ messages = <<Greeting>>
    /\ requests = <<>>

\* C3: a step in which the request of an exchange fails, for whichever
\* reason, appends the one fixed failure Message and nothing else, and the
\* exchange has no success Message.
C3_FixedFailureMessage ==
    [][\A e \in Exchanges :
          (InFlight(e) /\ Failed(e)') =>
              /\ messages' = Append(messages, FailureMessage)
              /\ caught'[e] \in {"NetworkError", "ServerError", "ParseError", "TypeError"}
              /\ \A k \in DOMAIN messages' :
                    origin'[k] = e /\ messages'[k].sender = "bot"
                        => messages'[k] = FailureMessage]_vars

\* One exchange failed on a non-success status and one on a malformed body;
\* each has the failure Message.
C3_Witness ==
    /\ caught[1] = "ServerError" /\ caught[2] = "ParseError"
    /\ Len(messages) = 5
    /\ \A e \in Exchanges : \E k \in MessagesOf(e, "bot") : messages[k] = FailureMessage

\* C4: a file exchange whose extraction failed (the document could not be
\* opened, a page failed to decode) has one bot failure Message.
C4_ExtractionFailureShown ==
    \A e \in Exchanges :
        pc[e] = "unhandledRejection" =>
            \E k \in MessagesOf(e, "bot") : messages[k] = FailureMessage

\* C5: loading is false immediately before the first Message of an exchange
\* is appended, provided no request of another exchange is in flight then,
\* and it is false immediately after the terminal bot Message of an exchange
\* is appended, by success or by failure.
C5_LoadingAroundExchange ==
    [][\A e \in Exchanges :
          /\ (~Started(e) /\ Started(e)' /\ \A f \in Exchanges : ~InFlight(f))
                => ~loading
          /\ (InFlight(e) /\ Settled(e)') => ~loading']_vars

\* C5 as first stated: false before the first Message of every exchange,
\* also of one submitted while an earlier exchange is in flight.
C5_LoadingFalseBeforeEveryExchange ==
    [][\A e \in Exchanges :
          /\ (~Started(e) /\ Started(e)') => ~loading
          /\ (InFlight(e) /\ Settled(e)') => ~loading']_vars

\* Exchange 1 succeeded, then exchange 2 was submitted and failed; loading
\* is false again.
C5_Witness ==
    /\ Succeeded(1) /\ Failed(2)
    /\ origin = <<0, 1, 1, 2, 2>>
    /\ ~loading

\* C6: whenever an exchange is Sending (submitted or selected and not yet
\* Succeeded or Failed), loading is true.
C6_LoadingWhileSending ==
    \A e \in Exchanges : Sending(e) => loading

\* C7: the conversation starts as the greeting alone, and every step leaves
\* it as it is or appends one Message to it.
C7_AppendOnly ==
    /\ messages = <<Greeting>>
    /\ [][/\ IsPrefix(messages, messages')
          /\ Len(messages') <= Len(messages) + 1]_vars

\* Two exchanges ran to their ends: five Messages, the greeting first.
C7_Witness ==
    /\ Len(messages) = 5
    /\ messages[1] = Greeting
    /\ \A e \in Exchanges : Settled(e)

\* C8: a typed or a file submission is accepted whatever is in flight, and
\* the step that settles an exchange appends that exchange's bot Message at
\* the end of the conversation, wherever the exchange was submitted.
C8_NotSerialized ==
    /\ [](\A e \in Exchanges :
            e = NextExchange =>
                /\ ~AllWhitespace(input) => ENABLED (HandleSend /\ InFlight(e)')
                /\ ENABLED (\E file \in FileNames :
                              HandleFileUpload(file) /\ Extracting(e)'))
    /\ [][\A e \in Exchanges :
            (InFlight(e) /\ Settled(e)') =>
                /\ Len(messages') = Len(messages) + 1
                /\ SubSeq(messages', 1, Len(messages)) = messages
                /\ messages'[Len(messages')].sender = "bot"
                /\ origin' = Append(origin, e)]_vars

\* The reply to the later submission precedes the reply to the earlier one.
C8_Witness ==
    /\ kind[1] = "typed" /\ kind[2] = "typed"
    /\ origin = <<0, 1, 2, 2, 1>>
    /\ messages[4].sender = "bot" /\ messages[5].sender = "bot"

\* C9: the request of a file exchange exists only when every page 1..N has
\* been retrieved, and an exchange whose extraction failed has no request.
C9_RequestAfterExtraction ==
    \A e \in Exchanges :
        /\ (kind[e] = "file" /\ Requested(e)) =>
              /\ numPages[e] >= 1
              /\ i[e] = numPages[e] + 1
        /\ ExtractionFailed(e) => ~Requested(e)

\* One file exchange of two pages has its request; in the other the second
\* page failed to decode.
C9_Witness ==
    \E e, f \in Exchanges :
        /\ kind[e] = "file" /\ numPages[e] = 2 /\ Requested(e)
        /\ pc[f] = "unhandledRejection" /\ i[f] = 2 /\ ~Requested(f)

\* C10: no request carries an empty or whitespace-only query.
C10_QueryNeverBlank ==
    \A k \in DOMAIN requests : trim(requests[k].body.customer_query) # <<>>

-----------------------------------------------------------------------------
\* Text extraction on its own: one file exchange, from the opening of the
\* document to the call of callAPI, over documents of up to ExtractPages pages.

ExtractPages == 3

Hello == <<"H", "e", "l", "l", "o">>
World == <<"W", "o", "r", "l", "d">>
Bank == <<"B", "a", "n", "k">>

\* The text runs of one page: none, one run, two runs.
ExtractItems == { <<>>, <<Hello>>, <<World>>, <<Bank>>, << <<"a">>, <<"b">> >> }

\* Exchange 1 after handleFileUpload, onload and the opening of a document
\* of n pages: page 1 is requested.
InitExtract ==
    \E n \in 1..ExtractPages :
        /\ messages = <<Greeting,
                        Message("user", String(UploadedText(<<"f", ".pdf">>)))>>
        /\ origin = <<0, 1>>
        /\ input = <<>>
        /\ loading = FALSE
        /\ pc = [e \in Exchanges |-> IF e = 1 THEN "getPage" ELSE "idle"]
        /\ kind = [e \in Exchanges |-> IF e = 1 THEN "file" ELSE "none"]
        /\ text = [e \in Exchanges |-> <<>>]
        /\ numPages = [e \in Exchanges |-> IF e = 1 THEN n ELSE 0]
        /\ i = [e \in Exchanges |-> IF e = 1 THEN 1 ELSE 0]
        /\ extractedText = [e \in Exchanges |-> <<>>]
        /\ pageRequests = [e \in Exchanges |-> IF e = 1 THEN <<1>> ELSE <<>>]
        /\ pages = [e \in Exchanges |-> <<>>]
        /\ caught = [e \in Exchanges |-> "none"]
        /\ requests = <<>>
        /\ last = "none"

NextExtract ==
    \/ GetPageResolves(1)
    \/ \E items \in ExtractItems : GetTextContentResolves(1, items)

SpecExtract == InitExtract /\ [][NextExtract]_vars

\* The concatenation of a sequence of strings, from the right.
RECURSIVE Flatten(_)
Flatten(ss) == IF ss = <<>> THEN <<>> ELSE Flatten(SubSeq(ss, 1, Len(ss) - 1)) \o ss[Len(ss)]

\* The runs of a page with one space between each two neighbours.
SpacedRuns(items) ==
    IF items = <<>> THEN <<>>
    ELSE [k \in 1..(2 * Len(items) - 1) |->
            IF k % 2 = 1 THEN items[(k + 1) \div 2] ELSE <<" ">>]

\* What a document with these pages is to yield: each page's runs with single
\* spaces between them, the pages one after the other with nothing between.
DocumentText(pp) == Flatten([p \in DOMAIN pp |-> Flatten(SpacedRuns(pp[p]))])

\* C11: when the request of a file exchange is issued, all N pages have been
\* read and the query is the pages' texts in page order, the runs of a page
\* joined by one space, nothing put between two pages.
C11_ExtractedText ==
    \A e \in Exchanges :
        (kind[e] = "file" /\ Requested(e)) =>
            /\ Len(pages[e]) = numPages[e]
            /\ text[e] = DocumentText(pages[e])
            /\ \A k \in DOMAIN requests :
                  requests[k].exchange = e =>
                      requests[k].body.customer_query = DocumentText(pages[e])

\* A document of three pages, the second without text, the others with two
\* runs each, has its request: "a ba b".
C11_Witness ==
    /\ pages[1] = << << <<"a">>, <<"b">> >>, <<>>, << <<"a">>, <<"b">> >> >>
    /\ Requested(1)
    /\ text[1] = <<"a", " ", "b", "a", " ", "b">>

HelloWorldBank == << <<Hello>>, <<World>>, <<Bank>> >>

\* C12: for the three pages "Hello", "World", "Bank" the query is
\* "HelloWorldBank": nothing is put between two pages.
C12_HelloWorldBankUnseparated ==
    \A e \in Exchanges :
        (pages[e] = HelloWorldBank /\ Requested(e)) =>
            /\ text[e] = Hello \o World \o Bank
            /\ \E k \in DOMAIN requests :
                  /\ requests[k].exchange = e
                  /\ requests[k].body.customer_query = Hello \o World \o Bank

\* C12 as first stated: the query is "Hello World Bank".
C12_HelloWorldBankSpaced ==
    \A e \in Exchanges :
        (pages[e] = HelloWorldBank /\ Requested(e)) =>
            text[e] = Hello \o <<" ">> \o World \o <<" ">> \o Bank

\* The three pages have been read and the request is issued.
C12_Witness ==
    /\ numPages[1] = 3
    /\ pages[1] = HelloWorldBank
    /\ Requested(1)

-----------------------------------------------------------------------------
\* C13: once an exchange has failed (its request, or its extraction), the
\* text field takes input and, while the model has an exchange left, a typed
\* and a file submission are accepted; the failing step itself touches
\* neither the input nor any other exchange.
C13_UsableAfterFailure ==
    /\ []((\E e \in Exchanges : Failed(e) \/ ExtractionFailed(e)) =>
            /\ ENABLED (\E v \in InputValues : SetInput(v))
            /\ \A f \in Exchanges :
                  f = NextExchange =>
                      /\ ~AllWhitespace(input) =>
                            ENABLED (HandleSend /\ InFlight(f)')
                      /\ ENABLED (\E file \in FileNames :
                                    HandleFileUpload(file) /\ Extracting(f)'))
    /\ [][\A e \in Exchanges :
            (Sending(e) /\ (Failed(e)' \/ ExtractionFailed(e)')) =>
                /\ input' = input
                /\ \A f \in Exchanges \ {e} : pc'[f] = pc[f]]_vars

\* The request of exchange 1 failed; exchange 2, a file selected after that,
\* ran to its success.
C13_Witness ==
    /\ caught[1] = "NetworkError"
    /\ kind[2] = "file" /\ Succeeded(2)
    /\ origin = <<0, 1, 1, 2, 2>>

\* C14: a started exchange that awaits nothing any more has reached
\* Succeeded or Failed (so that, every awaited operation completing or
\* failing, every started exchange settles).
C14_StoppedIsSettled ==
    \A e \in Exchanges : Started(e) => (Sending(e) \/ Settled(e))

\* The text submitted for exchange e: what the user Message of a typed
\* exchange shows, the extracted text of a file exchange.
SubmittedText(e) ==
    IF kind[e] = "typed"
    THEN LET k == CHOOSE k \in MessagesOf(e, "user") : TRUE
         IN  messages[k].text.value
    ELSE extractedText[e]

RequestsOf(e) == {k \in DOMAIN requests : requests[k].exchange = e}

\* C15: an exchange has at most one request, exactly one once it has failed
\* or succeeded; the request is a POST whose body has the one field
\* customer_query, the text submitted for the exchange as it was entered or
\* extracted.
C15_OneRequestNoRetry ==
    \A e \in Exchanges :
        /\ Cardinality(RequestsOf(e)) <= 1
        /\ (InFlight(e) \/ Settled(e)) => Cardinality(RequestsOf(e)) = 1
        /\ \A k \in RequestsOf(e) :
              /\ requests[k].method = "POST"
              /\ DOMAIN requests[k].body = {"customer_query"}
              /\ requests[k].body.customer_query = SubmittedText(e)

\* The request of the typed text " b" failed and was not repeated; the
\* request of a file exchange carries the two runs of its page.
C15_Witness ==
    /\ kind[1] = "typed" /\ Failed(1)
    /\ kind[2] = "file" /\ InFlight(2)
    /\ requests = <<[exchange |-> 1, method |-> "POST",
                     body |-> [customer_query |-> <<" ", "b">>]],
                    [exchange |-> 2, method |-> "POST",
                     body |-> [customer_query |-> <<"a", " ", "b">>]]>>

-----------------------------------------------------------------------------
\* C16: the step that accepts a typed submission appends the user Message
\* with the text as typed, issues the request and leaves the text field
\* empty; after it the field changes only when the user types or submits.
C16_SubmissionStep ==
    [][/\ \A e \in Exchanges :
             (~Started(e) /\ kind'[e] = "typed") =>
                 /\ messages' = Append(messages, Message("user", String(input)))
                 /\ InFlight(e)'
                 /\ input' = <<>>
       /\ input' # input =>
             \/ pc' = pc /\ messages' = messages
             \/ \E e \in Exchanges : ~Started(e) /\ kind'[e] = "typed"]_vars

\* The request of the typed text "a" is pending, the field is empty and the
\* user Message is the last of the conversation.
C16_Witness ==
    /\ kind[1] = "typed" /\ pc[1] = "fetch"
    /\ input = <<>>
    /\ messages = <<Greeting, Message("user", String(<<"a">>))>>

\* The page numbers 1..n in order.
PagesUpTo(n) == [k \in 1..n |-> k]

\* C17: the pages are requested in the order 1, 2, ...; a page is requested
\* only when the text of every page before it has been obtained, so at most
\* one page request is outstanding; when the analysis request is issued all
\* pages 1..N have been requested and obtained.
C17_PagesSequential ==
    \A e \in Exchanges :
        /\ pageRequests[e] = PagesUpTo(Len(pageRequests[e]))
        /\ Len(pageRequests[e]) <= numPages[e]
        /\ Len(pages[e]) <= Len(pageRequests[e])
        /\ Len(pageRequests[e]) <= Len(pages[e]) + 1
        /\ (kind[e] = "file" /\ Requested(e)) =>
              /\ pageRequests[e] = PagesUpTo(numPages[e])
              /\ Len(pages[e]) = numPages[e]

\* Page 2 of a document of two pages is requested, the text of page 1 is there.
C17_Witness ==
    \E e \in Exchanges :
        /\ numPages[e] = 2
        /\ pageRequests[e] = <<1, 2>>
        /\ Len(pages[e]) = 1
        /\ pc[e] = "getPage"

\* C18: whenever loading is set, the request of some exchange is in flight.
C18_LoadingImpliesInFlight ==
    loading => \E e \in Exchanges : InFlight(e)

\* Exchange 1 has failed and loading is set again, for the request of
\* exchange 2.
C18_Witness ==
    /\ Failed(1)
    /\ InFlight(2)
    /\ loading

\* C19: every bot Message but the greeting comes after the user Message of
\* its own exchange, and there are at most as many such bot Messages as user
\* Messages.
C19_UserBeforeBot ==
    /\ \A k \in DOMAIN messages :
          (messages[k].sender = "bot" /\ k > 1) =>
              \E j \in 1..(k - 1) :
                  /\ messages[j].sender = "user"
                  /\ origin[j] = origin[k]
                  /\ origin[k] \in Exchanges
    /\ Cardinality({k \in DOMAIN messages : messages[k].sender = "bot" /\ k > 1})
          <= Cardinality({k \in DOMAIN messages : messages[k].sender = "user"})
    /\ messages[1] = Greeting

\* A typed and a file exchange, both answered, the file's reply first.
C19_Witness ==
    /\ kind[1] = "typed" /\ kind[2] = "file"
    /\ origin = <<0, 1, 2, 2, 1>>
    /\ messages[4].sender = "bot" /\ messages[5].sender = "bot"

====
